---- MODULE Spec2Model ----
(***************************************************************************)
(* Model of src/util/disasm.c: the control-flow walk of disasm() over a    *)
(* buffer of 3-word slots, and the decoding of one instruction slot by     *)
(* disasm_inst() / disasm_alu() / disasm_fetch() / print_srcreg() /        *)
(* print_dstreg().                                                         *)
(*                                                                         *)
(* A uint32_t word is held as its two 16-bit halves [hi, lo], since the    *)
(* model checker's integers are 32-bit signed.  The one uint32_t that can  *)
(* exceed 2^31 in the walk is cnt (sizedwords/3 - off with off too big):   *)
(* it is held as the two's-complement signed integer of the same bit       *)
(* pattern, and compared with the unsigned comparison ULt.                 *)
(***************************************************************************)
EXTENDS Integers, Naturals, Sequences, FiniteSets, TLC

VARIABLES
    dwords,      \* the caller's buffer: a sequence of words (index k is dwords[k+1])
    sizedwords,  \* its length in words
    pc,          \* position in disasm()
    first_off,   \* disasm: first_off
    i,           \* disasm: i
    j,           \* disasm: j
    off,         \* disasm: off of the entry being processed
    cnt,         \* disasm: cnt of the entry being processed
    hdr,         \* the three words at &dwords[idx] of the entry being processed
    alu_off,     \* disasm: alu_off, the cursor
    cfs,         \* output: the CF lines printed by disasm_cf, in order
    insts,       \* output: the instruction lines printed by disasm_inst, in order
    marks,       \* output: number of "?" printed
    slot,        \* input of one disasm_inst call (instruction specification)
    ipc,         \* position of that call
    res          \* what that call printed

vars == <<dwords, sizedwords, pc, first_off, i, j, off, cnt, hdr, alu_off,
          cfs, insts, marks, slot, ipc, res>>

cfvars == <<dwords, sizedwords, pc, first_off, i, j, off, cnt, hdr, alu_off,
            cfs, insts, marks>>

instvars == <<slot, ipc, res>>

----------------------------------------------------------------------------
(* Bounds of the model *)

MaxSlots == 3     \* buffers of 1..MaxSlots slots
MaxAddr == 3      \* 12-bit addr fields drawn from 0..MaxAddr
MaxCnt == 1       \* 4-bit count fields drawn from 0..MaxCnt
MaxOverrun == 1   \* a run is followed at most this many slots past the buffer

----------------------------------------------------------------------------
(* Words and bit fields *)

W(h, l) == [hi |-> h, lo |-> l]

ZeroWord == W(0, 0)

\* (w >> k) & (2^m - 1), for m <= 12
Field(w, k, m) ==
    IF k >= 16
    THEN (w.hi \div (2 ^ (k - 16))) % (2 ^ m)
    ELSE ((w.lo \div (2 ^ k)) + (w.hi % (2 ^ m)) * (2 ^ (16 - k))) % (2 ^ m)

\* w & (1 << k) as a truth value
Bit(w, k) == Field(w, k, 1) = 1

\* dwords[idx] == 0
IsZero(w) == w.hi = 0 /\ w.lo = 0

\* unsigned a < b on two's-complement 32-bit values
ULt(a, b) == IF (a < 0) = (b < 0) THEN a < b ELSE b < 0

----------------------------------------------------------------------------
(* The sample words of the layout comment *)

SampleAlu == <<W(5135, 1), W(34, 0), W(57346, 256)>>        \* 140f0001 00220000 e0020100
SampleFetch == <<W(4096, 8225), W(8191, 63112), W(0, 2)>>   \* 10002021 1ffff688 00000002

\* high half of the CF sample's first word, 00955002
CfHi == 149

\* words 1 and 2 of a slot
RestSet == { <<ZeroWord, ZeroWord>>, <<SampleAlu[2], SampleAlu[3]>> }

\* first words of a slot
W0Set == {ZeroWord} \cup
         { W(CfHi, c * 4096 + a) : c \in 0..MaxCnt, a \in 0..MaxAddr }

\* what the memory past the end of the buffer may hold, slot by slot
OobSlots == { <<ZeroWord, ZeroWord, ZeroWord>>, SampleAlu }

\* the buffers of n slots: any first words, one filling of the other two
Buffers(n) ==
    { [k \in 1..(3 * n) |->
          IF k % 3 = 1 THEN f[(k + 2) \div 3]
          ELSE IF k % 3 = 2 THEN r[1] ELSE r[2]] :
      f \in [1..n -> W0Set], r \in RestSet }

----------------------------------------------------------------------------
(* disasm(): helpers *)

Rd(k) == dwords[k + 1]

SlotAt(k) == <<Rd(k), Rd(k + 1), Rd(k + 2)>>

\* dwords[idx] & 0x0fff
CfAddr(w) == Field(w, 0, 12)

\* (dwords[idx] & 0xf000) >> 12
CfCnt(w) == Field(w, 12, 4)

\* dwords[2] & 0xf0000000 selects disasm_alu, else disasm_fetch
InstKind(s) == IF Field(s[3], 28, 4) # 0 THEN "ALU" ELSE "FETCH"

\* faulty variant: the offset is not subtracted
RestCntNoSub(n, o) == n \div 3

\* (sizedwords / 3) - off, in uint32_t
RestCnt(n, o) == (n \div 3) - o

\* faulty variant: the special case wants all three words zero
HdrIsZeroAll(s) == IsZero(s[1]) /\ IsZero(s[2]) /\ IsZero(s[3])

\* the per-entry special case: dwords[idx] == 0
HdrIsZero(s) == IsZero(s[1])

\* faulty variant: the slot offset is compared unscaled
ResyncNeededUnscaled(a, o) == a # o

\* the resync guard: alu_off != (off * 3)
ResyncNeeded(a, o) == a # o * 3

\* faulty variant: off by one, j <= cnt
BodyContinuesLe(jj, c) == jj = c \/ ULt(jj, c)

\* the body loop's condition: j < cnt
BodyContinues(jj, c) == ULt(jj, c)

\* the trailing loop's condition: alu_off != sizedwords
TrailingNeeded(a, n) == a # n

\* the statement about to run reads past the end of the buffer
NextReadOob ==
    \/ pc = "for" /\ i < first_off /\ i * 3 >= sizedwords
    \/ pc = "resync" /\ ResyncNeeded(alu_off, off) /\ alu_off + 3 > sizedwords
    \/ pc = "body" /\ BodyContinues(j, cnt) /\ alu_off + 3 > sizedwords
    \/ pc = "trailing" /\ TrailingNeeded(alu_off, sizedwords)
                       /\ alu_off + 3 > sizedwords

\* the slots a read of three words at word index k can return
SlotsRead(k) ==
    IF k + 3 <= sizedwords THEN {SlotAt(k)}
    ELSE IF k < sizedwords + 3 * MaxOverrun THEN OobSlots ELSE {}

\* disasm_inst(dwords + alu_off, level); alu_off += 3;
DecodeAtCursor(via) ==
    \E s \in SlotsRead(alu_off) :
        /\ insts' = Append(insts, [slot |-> alu_off \div 3, via |-> via,
                                   entry |-> i, kind |-> InstKind(s)])
        /\ alu_off' = alu_off + 3

----------------------------------------------------------------------------
(* disasm(): the walk *)

InitCf ==
    /\ \E n \in 1..MaxSlots : \E b \in Buffers(n) :
           dwords = b /\ sizedwords = 3 * n
    /\ pc = "start"
    /\ first_off = 0 /\ i = 0 /\ j = 0 /\ off = 0 /\ cnt = 0
    /\ hdr = <<ZeroWord, ZeroWord, ZeroWord>>
    /\ alu_off = 0
    /\ cfs = <<>> /\ insts = <<>> /\ marks = 0

\* lines 261-271: the header word and the degenerate case
Start ==
    /\ pc = "start"
    /\ LET s == SlotAt(0) IN
         /\ first_off' = CfAddr(s[1])
         /\ hdr' = s
         /\ IF IsZero(s[1])
            THEN /\ off' = 1
                 /\ cnt' = RestCnt(sizedwords, 1)
                 /\ alu_off' = 3
                 /\ cfs' = Append(cfs, [idx |-> 0, off |-> 1,
                                        cnt |-> RestCnt(sizedwords, 1),
                                        raw |-> s, at |-> 3, by |-> "header"])
            ELSE /\ alu_off' = CfAddr(s[1]) * 3
                 /\ UNCHANGED <<off, cnt, cfs>>
    /\ i' = 0
    /\ pc' = "for"
    /\ UNCHANGED <<dwords, sizedwords, j, insts, marks>>
    /\ UNCHANGED instvars

\* lines 274-284: i < first_off, read entry i
ReadEntry ==
    /\ pc = "for"
    /\ i < first_off
    /\ \E s \in (IF i * 3 < sizedwords THEN {SlotAt(i * 3)} ELSE OobSlots) :
         /\ hdr' = s
         /\ IF HdrIsZero(s)
            THEN /\ marks' = marks + 1
                 /\ off' = alu_off \div 3
                 /\ cnt' = RestCnt(sizedwords, alu_off \div 3)
            ELSE /\ off' = CfAddr(s[1])
                 /\ cnt' = CfCnt(s[1])
                 /\ UNCHANGED marks
    /\ pc' = "resync"
    /\ UNCHANGED <<dwords, sizedwords, first_off, i, j, alu_off, cfs, insts>>
    /\ UNCHANGED instvars

\* lines 287-291: one iteration of the resync loop
ResyncStep ==
    /\ pc = "resync"
    /\ ResyncNeeded(alu_off, off)
    /\ marks' = marks + 1
    /\ DecodeAtCursor("resync")
    /\ UNCHANGED <<dwords, sizedwords, pc, first_off, i, j, off, cnt, hdr, cfs>>
    /\ UNCHANGED instvars

\* line 293: the resync loop is over, disasm_cf prints the entry
EmitCf ==
    /\ pc = "resync"
    /\ ~ResyncNeeded(alu_off, off)
    /\ cfs' = Append(cfs, [idx |-> i, off |-> off, cnt |-> cnt,
                           raw |-> hdr, at |-> alu_off, by |-> "entry"])
    /\ j' = 0
    /\ pc' = "body"
    /\ UNCHANGED <<dwords, sizedwords, first_off, i, off, cnt, hdr, alu_off,
                   insts, marks>>
    /\ UNCHANGED instvars

\* lines 295-298: one iteration of the entry's body loop
BodyStep ==
    /\ pc = "body"
    /\ BodyContinues(j, cnt)
    /\ DecodeAtCursor("body")
    /\ j' = j + 1
    /\ UNCHANGED <<dwords, sizedwords, pc, first_off, i, off, cnt, hdr, cfs, marks>>
    /\ UNCHANGED instvars

\* the body loop is over: i++
BodyExit ==
    /\ pc = "body"
    /\ ~BodyContinues(j, cnt)
    /\ i' = i + 1
    /\ pc' = "for"
    /\ UNCHANGED <<dwords, sizedwords, first_off, j, off, cnt, hdr, alu_off,
                   cfs, insts, marks>>
    /\ UNCHANGED instvars

\* line 274: i < first_off fails
LoopExit ==
    /\ pc = "for"
    /\ ~(i < first_off)
    /\ pc' = "trailing"
    /\ UNCHANGED <<dwords, sizedwords, first_off, i, j, off, cnt, hdr, alu_off,
                   cfs, insts, marks>>
    /\ UNCHANGED instvars

\* lines 302-306: one iteration of the trailing loop
TrailingStep ==
    /\ pc = "trailing"
    /\ TrailingNeeded(alu_off, sizedwords)
    /\ marks' = marks + 1
    /\ DecodeAtCursor("trailing")
    /\ UNCHANGED <<dwords, sizedwords, pc, first_off, i, j, off, cnt, hdr, cfs>>
    /\ UNCHANGED instvars

\* line 308: return 0
Return ==
    /\ pc = "trailing"
    /\ ~TrailingNeeded(alu_off, sizedwords)
    /\ pc' = "done"
    /\ UNCHANGED <<dwords, sizedwords, first_off, i, j, off, cnt, hdr, alu_off,
                   cfs, insts, marks>>
    /\ UNCHANGED instvars

\* a read past the end of the buffer may hit unmapped memory
Fault ==
    /\ NextReadOob
    /\ pc' = "fault"
    /\ UNCHANGED <<dwords, sizedwords, first_off, i, j, off, cnt, hdr, alu_off,
                   cfs, insts, marks>>
    /\ UNCHANGED instvars

IdleInst ==
    /\ slot = SampleAlu
    /\ ipc = "idle"
    /\ res = [unit |-> "none"]

Init == InitCf /\ IdleInst

Next ==
    \/ Start
    \/ ReadEntry
    \/ ResyncStep
    \/ EmitCf
    \/ BodyStep
    \/ BodyExit
    \/ LoopExit
    \/ TrailingStep
    \/ Return
    \/ Fault

Spec == Init /\ [][Next]_vars

----------------------------------------------------------------------------
(* One instruction slot: disasm_inst and what it calls *)

\* #define REG_MASK 0x1f: registers are 5-bit fields
RegBits == 5

\* op_name is declared with 0x1f elements: indices 0..30
OpNameLen == 31

\* static const char chan_names[] = { 'x', 'y', 'z', 'w' }
chan_names == <<"x", "y", "z", "w">>

\* the designated initialisers of op_name; "" is the null pointer of a gap
op_name == [n \in 0..(OpNameLen - 1) |->
               CASE n = 0 -> "ADDv"
                 [] n = 1 -> "MULv"
                 [] n = 2 -> "MAXv"
                 [] n = 11 -> "MULADDv"
                 [] n = 15 -> "DOT4v"
                 [] n = 16 -> "DOT3v"
                 [] OTHER -> ""]

\* printf("\tALU:\tOP(%u)", op)
OpText(n) == "OP(" \o ToString(n) \o ")"

\* what a non-null pointer read past the end of op_name prints
GarbageText == "<bytes past op_name>"

\* faulty variant: the position is not added
ChanIdxNoRot(swiz, k) == swiz % 4

\* the index of the channel name print_srcreg prints at position k, given
\* the swizzle as shifted so far: chan_names[(swiz + i) & 0x3]
ChanIdx(swiz, k) == (swiz + k) % 4

\* the for loop of print_srcreg from position k on: swiz >>= 2 each time round
RECURSIVE SrcChans(_, _)
SrcChans(swiz, k) ==
    IF k >= 4 THEN <<>>
    ELSE <<chan_names[ChanIdx(swiz, k) + 1]>> \o SrcChans(swiz \div 4, k + 1)

\* print_srcreg(num, type, swiz, negate)
print_srcreg(num, type, swiz, negate) ==
    [neg |-> IF negate THEN "-" ELSE "",
     cls |-> IF type THEN "C" ELSE "R",
     num |-> num,
     chans |-> IF swiz # 0 THEN <<".">> \o SrcChans(swiz, 0) ELSE <<>>]

\* the for loop of print_dstreg from position k on: mask >>= 1 each time round
RECURSIVE DstChans(_, _)
DstChans(mask, k) ==
    IF k >= 4 THEN <<>>
    ELSE <<IF mask % 2 = 1 THEN chan_names[k + 1] ELSE "_">>
         \o DstChans(mask \div 2, k + 1)

\* print_dstreg(num, mask)
print_dstreg(num, mask) ==
    [num |-> num,
     chans |-> IF mask # 15 THEN <<".">> \o DstChans(mask, 0) ELSE <<>>]

\* faulty variant: shifted by one bit too many
AluOpShift25(s) == Field(s[3], 25, 5)

\* op = (dwords[2] >> 24) & 0x1f
AluOp(s) == Field(s[3], 24, 5)

\* the words disasm_alu prints under print_unknown: identified fields masked
AluUnknown(s) ==
    <<W(s[1].hi - Field(s[1], 16, 4), s[1].lo - Field(s[1], 0, RegBits)),
      W(s[2].hi - Field(s[2], 16, 8) - 512 * Field(s[2], 25, 1)
                - 1024 * Field(s[2], 26, 1),
        s[2].lo % 256),
      W(32 * Field(s[3], 21, 3) + 8192 * Field(s[3], 29, 1),
        s[3].lo - 256 * Field(s[3], 8, RegBits))>>

\* the mnemonics the lookup op_name[op] can print
Mnemonics(op) ==
    IF op < OpNameLen
    THEN {IF op_name[op] # "" THEN op_name[op] ELSE OpText(op)}
    ELSE {OpText(op), GarbageText}

\* disasm_alu(dwords, level): the line it prints, with mnemonic m
disasm_alu(s, m) ==
    [unit |-> "ALU",
     raw |-> s,
     unknown |-> AluUnknown(s),
     op |-> AluOp(s),
     mnemonic |-> m,
     dst |-> print_dstreg(Field(s[1], 0, RegBits), Field(s[1], 16, 4)),
     src1 |-> print_srcreg(Field(s[3], 16, RegBits), ~Bit(s[3], 31),
                           Field(s[2], 16, 8), Bit(s[2], 26)),
     src2 |-> print_srcreg(Field(s[3], 8, RegBits), ~Bit(s[3], 30),
                           Field(s[2], 8, 8), Bit(s[2], 25))]

\* disasm_fetch(dwords, level): the line it prints
disasm_fetch(s) ==
    [unit |-> "FETCH",
     raw |-> s,
     unknown |-> <<W(s[1].hi - Field(s[1], 16, 1) - 16 * Field(s[1], 20, 4),
                     1024 * Field(s[1], 10, 2) + Field(s[1], 0, 5)),
                   s[2], s[3]>>,
     type |-> "SAMPLE",
     dst |-> Field(s[1], 12, RegBits),
     src |-> Field(s[1], 5, RegBits),
     const |-> Field(s[1], 20, 4)]

\* the slots handed to disasm_inst
InstSlots ==
    { <<w0, W(ns[1] + s1, ns[2] * 256), W(t * 8192 + o * 256 + 2, 256)>> :
        w0 \in {SampleAlu[1], W(5125, 30)},
        ns \in {<<0, 0>>, <<1536, 136>>},
        s1 \in 0..255,
        t \in {0, 7},
        o \in 0..31 }

InitInst ==
    /\ slot \in InstSlots
    /\ ipc = "call"
    /\ res = [unit |-> "none"]

\* disasm_inst: dwords[2] & 0xf0000000 is set, disasm_alu prints the line
InstAlu ==
    /\ ipc = "call"
    /\ InstKind(slot) = "ALU"
    /\ \E m \in Mnemonics(AluOp(slot)) : res' = disasm_alu(slot, m)
    /\ ipc' = "printed"
    /\ UNCHANGED slot
    /\ UNCHANGED cfvars

\* disasm_alu: printf("%s") of a pointer read past the end of op_name faults
InstAluFault ==
    /\ ipc = "call"
    /\ InstKind(slot) = "ALU"
    /\ AluOp(slot) >= OpNameLen
    /\ ipc' = "fault"
    /\ UNCHANGED <<slot, res>>
    /\ UNCHANGED cfvars

\* disasm_inst: otherwise disasm_fetch prints the line
InstFetch ==
    /\ ipc = "call"
    /\ InstKind(slot) = "FETCH"
    /\ res' = disasm_fetch(slot)
    /\ ipc' = "printed"
    /\ UNCHANGED slot
    /\ UNCHANGED cfvars

IdleCf ==
    /\ dwords = <<>> /\ sizedwords = 0
    /\ pc = "idle"
    /\ first_off = 0 /\ i = 0 /\ j = 0 /\ off = 0 /\ cnt = 0
    /\ hdr = <<ZeroWord, ZeroWord, ZeroWord>>
    /\ alu_off = 0
    /\ cfs = <<>> /\ insts = <<>> /\ marks = 0

InitInstSpec == InitInst /\ IdleCf

NextInst ==
    \/ InstAlu
    \/ InstAluFault
    \/ InstFetch

SpecInst == InitInstSpec /\ [][NextInst]_vars

----------------------------------------------------------------------------
(* Properties of the walk *)

NSlots == sizedwords \div 3

\* the slots entry e decoded in its body loop, in output order
BodyOf(e) == SelectSeq(insts, LAMBDA r : r.via = "body" /\ r.entry = e)

\* no slot index appears twice among the decoded instructions
NoSlotTwice ==
    \A a, b \in DOMAIN insts : a # b => insts[a].slot # insts[b].slot

\* C1: a run consumes every slot exactly once: CF entries emitted plus slots
\* decoded (body, resync, trailing) never exceed sizedwords/3 and equal it
\* when disasm returns; no slot is decoded twice and none is skipped.
C1_EverySlotOnce ==
    /\ Len(cfs) + Len(insts) <= NSlots
    /\ NoSlotTwice
    /\ pc = "done" =>
         /\ Len(cfs) + Len(insts) = NSlots
         /\ { cfs[k].idx : k \in DOMAIN cfs } \cup
            { insts[k].slot : k \in DOMAIN insts } = 0..(NSlots - 1)

\* C2: while the resync loop or the trailing loop runs, the cursor has not
\* passed the loop's target, so that steps of 3 bring it to the target and
\* the loop ends.
C2_LoopsReachTarget ==
    /\ pc = "resync" => alu_off <= off * 3
    /\ pc = "trailing" => alu_off <= sizedwords

\* C3: the cursor never exceeds sizedwords, every slot handed to disasm_inst
\* and every CF header slot read lies inside the buffer, and disasm returns
\* with the cursor equal to sizedwords.
C3_CursorBounded ==
    /\ alu_off <= sizedwords
    /\ \A k \in DOMAIN insts : insts[k].slot * 3 + 3 <= sizedwords
    /\ \A k \in DOMAIN cfs : cfs[k].idx * 3 + 3 <= sizedwords
    /\ pc = "done" => alu_off = sizedwords

\* C4: when the first word of the buffer is 0, exactly one CF entry is
\* emitted, with index 0, addr 1 and count sizedwords/3 - 1; the entry loop
\* runs no iteration, and the cursor is 3 before any slot is decoded.
C4_DegenerateHeader ==
    (pc # "start" /\ dwords[1] = [hi |-> 0, lo |-> 0]) =>
        /\ first_off = 0
        /\ Len(cfs) = 1
        /\ cfs[1].idx = 0 /\ cfs[1].off = 1 /\ cfs[1].cnt = NSlots - 1
        /\ cfs[1].at = 3
        /\ pc \notin {"resync", "body"}
        /\ \A k \in DOMAIN insts :
               insts[k].via = "trailing" /\ insts[k].slot = k
        /\ alu_off = 3 * (1 + Len(insts))

C4_Witness ==
    /\ pc = "done"
    /\ dwords[1] = [hi |-> 0, lo |-> 0]
    /\ NSlots = 3
    /\ Len(cfs) = 1
    /\ Len(insts) = 2

Continued(r) ==
    /\ r.off * 3 = r.at
    /\ r.cnt = NSlots - r.off
    /\ \A k \in DOMAIN insts : insts[k].entry = r.idx => insts[k].via # "resync"
    /\ (pc = "for" /\ i = r.idx + 1) =>
         /\ alu_off = sizedwords
         /\ \A q \in r.off..(NSlots - 1) :
                \E m \in DOMAIN insts :
                    /\ insts[m].slot = q
                    /\ insts[m].via = "body"
                    /\ insts[m].entry = r.idx

\* the emitted entry r carries the addr and count of its own low 16 bits
OwnFields(r) ==
    /\ r.off = r.raw[1].lo % 4096
    /\ r.cnt = r.raw[1].lo \div 4096

\* entry i has been read and not yet emitted, and the special case was
\* applied to it: the resync guard has nothing to do
ReadContinued ==
    /\ alu_off = off * 3
    /\ cnt = NSlots - off

\* entry i has been read and carries the fields of its own low 16 bits
ReadOwnFields ==
    /\ off = hdr[1].lo % 4096
    /\ cnt = hdr[1].lo \div 4096

\* C9 as stated: an entry whose header slot is all-zero is continued to the
\* end of the buffer (addr = cursor/3, count = sizedwords/3 - addr, no resync,
\* cursor = sizedwords after its body); a header slot with any nonzero word
\* keeps its own addr and count.
C9_AllZeroSlot ==
    /\ pc = "resync" =>
          IF hdr = <<ZeroWord, ZeroWord, ZeroWord>>
          THEN ReadContinued
          ELSE ReadOwnFields
    /\ \A k \in DOMAIN cfs : cfs[k].by = "entry" =>
          IF cfs[k].raw = <<ZeroWord, ZeroWord, ZeroWord>>
          THEN Continued(cfs[k])
          ELSE OwnFields(cfs[k])

\* C9 as amended: the special case is decided by the first word of the
\* header slot alone: first word zero, whatever the other two words, gives
\* the continued entry; first word nonzero keeps its own addr and count.
C9_ZeroFirstWord ==
    /\ pc = "resync" =>
          IF hdr[1] = [hi |-> 0, lo |-> 0]
          THEN ReadContinued
          ELSE ReadOwnFields
    /\ \A k \in DOMAIN cfs : cfs[k].by = "entry" =>
          IF cfs[k].raw[1] = [hi |-> 0, lo |-> 0]
          THEN Continued(cfs[k])
          ELSE OwnFields(cfs[k])

C9_Witness ==
    /\ pc = "done"
    /\ \E k \in DOMAIN cfs :
         /\ cfs[k].by = "entry"
         /\ cfs[k].raw[1] = [hi |-> 0, lo |-> 0]
         /\ cfs[k].raw[3] # [hi |-> 0, lo |-> 0]
         /\ cfs[k].off # 0
         /\ Len(BodyOf(cfs[k].idx)) >= 1

\* addr and count of header slot e of the buffer; the header's entry count
HdrAddr(e) == dwords[3 * e + 1].lo % 4096
HdrCnt(e) == dwords[3 * e + 1].lo \div 4096
HdrEntries == dwords[1].lo % 4096

\* the slot after the ranges of entries 0..e-1 when these are inside the
\* buffer, have a nonzero first word and follow each other from first_off on;
\* -1 otherwise
RECURSIVE TileEnd(_)
TileEnd(e) ==
    IF e = 0 THEN HdrEntries
    ELSE LET p == TileEnd(e - 1)
         IN  IF p < 0 \/ e > NSlots THEN -1
             ELSE IF dwords[3 * e - 2] = [hi |-> 0, lo |-> 0] THEN -1
             ELSE IF HdrAddr(e - 1) # p THEN -1
             ELSE p + HdrCnt(e - 1)

\* the header word is nonzero and the entries tile the instruction region
Clean ==
    /\ dwords[1] # [hi |-> 0, lo |-> 0]
    /\ TileEnd(HdrEntries) = NSlots

\* C10: on a clean buffer no "?" is printed, the resync and trailing loops
\* run no iteration, no read leaves the buffer, and every instruction slot is
\* decoded exactly once, in the body of the entry whose range contains it.
C10_CleanDecode ==
    Clean =>
        /\ marks = 0
        /\ pc # "fault"
        /\ NoSlotTwice
        /\ \A k \in DOMAIN insts :
               /\ insts[k].via = "body"
               /\ HdrAddr(insts[k].entry) <= insts[k].slot
               /\ insts[k].slot < HdrAddr(insts[k].entry) + HdrCnt(insts[k].entry)
        /\ pc = "done" =>
               { insts[k].slot : k \in DOMAIN insts } = HdrEntries..(NSlots - 1)

C10_Witness ==
    /\ Clean
    /\ pc = "done"
    /\ Len(cfs) = 2
    /\ Len(insts) = 1

----------------------------------------------------------------------------
(* Properties of one instruction slot *)

\* the opcodes op_name names
KnownOps == {0, 1, 2, 11, 15, 16}

\* C5: once disasm_alu has run on a slot whose opcode field n is not a known
\* code, it has printed OP(n) and has not failed, and the lookup op_name[n]
\* was inside the table.
C5_UnknownOpRendersOpN ==
    (ipc # "call" /\ (slot[3].hi \div 4096) # 0
                  /\ ((slot[3].hi \div 256) % 32) \notin KnownOps) =>
        /\ ipc = "printed"
        /\ res.mnemonic = OpText((slot[3].hi \div 256) % 32)
        /\ (slot[3].hi \div 256) % 32 < OpNameLen

\* C6 as stated: the slot 140f0001 00220000 e0020100 decodes to opcode
\* field 1, mnemonic MULv.
C6_SampleIsMULv ==
    (ipc = "printed" /\ slot = SampleAlu) =>
        res.unit = "ALU" /\ res.op = 1 /\ res.mnemonic = "MULv"

\* C6 as amended: the slot 140f0001 00220000 e0020100 decodes to opcode
\* field 0 (0xe0 & 0x1f), mnemonic ADDv.
C6_SampleIsADDv ==
    (ipc = "printed" /\ slot = SampleAlu) =>
        res.unit = "ALU" /\ res.op = 0 /\ res.mnemonic = "ADDv"

C6_Witness ==
    /\ ipc = "printed"
    /\ slot = <<[hi |-> 5135, lo |-> 1], [hi |-> 34, lo |-> 0],
                [hi |-> 57346, lo |-> 256]>>
    /\ res.unit = "ALU"

\* the documented per-position tables: row p is the channel printed at
\* position p for the 2-bit groups 0, 1, 2, 3
SwizzleTable ==
    << <<"x", "y", "z", "w">>,
       <<"y", "z", "w", "x">>,
       <<"z", "w", "x", "y">>,
       <<"w", "x", "y", "z">> >>

\* the suffix c is the one documented for the 8-bit swizzle s
SuffixOf(s, c) ==
    IF s = 0 THEN c = <<>>
    ELSE /\ Len(c) = 5
         /\ c[1] = "."
         /\ \A p \in 0..3 : c[p + 2] = SwizzleTable[p + 1][((s \div (4 ^ p)) % 4) + 1]

\* C7: a source operand with swizzle 0 has no channel suffix; with a nonzero
\* swizzle s it has "." and exactly 4 channels, position p being the entry of
\* the documented table of position p for the 2-bit group (s >> 2p) & 3.
C7_SwizzleSuffix ==
    (ipc = "printed" /\ res.unit = "ALU") =>
        /\ SuffixOf(slot[2].hi % 256, res.src1.chans)
        /\ SuffixOf(slot[2].lo \div 256, res.src2.chans)

C7_Witness ==
    /\ ipc = "printed"
    /\ res.unit = "ALU"
    /\ slot[2].hi % 256 = 27
    /\ res.src1.chans = <<".", "w", "w", "w", "w">>
    /\ slot[2].lo \div 256 = 0
    /\ res.src2.chans = <<>>

====
